---- MODULE Spec2Model ----
(***************************************************************************)
(* Go-Bank-Pro: the transfer transaction of db/sqlc/store.go.              *)
(*                                                                         *)
(* Concurrent callers invoke SQLStore.TransferTx.  Each call runs execTx:  *)
(* BeginTx, the work function (CreateTransfer, CreateEntry x2, addMoney =  *)
(* AddAccountBalance x2), then Commit or Rollback.  The store is a         *)
(* relational database with row locks on the accounts rows: writes of an   *)
(* open transaction are private to it until it commits.                    *)
(***************************************************************************)
EXTENDS Integers, Sequences, FiniteSets, TLC

\* ---------------------------------------------------------------- bounds
\* concurrent TransferTx calls
NumCalls == 2
\* calls and accounts of the ring A->B, B->C, C->A
RingSize == 3
\* scenario amounts are the multiples of amount up to this factor
MaxAmount == 2

\* account1, account2 := createRandomAccount(t) of the store tests
NumAccounts == 2

\* amount := int64(10) of TestTransferTx and TestTransferTxDeadlock
amount == 10

\* opening balance of account a (accounts are created before any transfer):
\* 100 and 50 as in the scenario of the specification, 5 for any further one
InitBalance(a) == IF a = 1 THEN 100 ELSE IF a = 2 THEN 50 ELSE 5

\* ---------------------------------------------------------------- values
ZeroTransfer == [ID |-> 0, FromAccountID |-> 0, ToAccountID |-> 0, Amount |-> 0]
ZeroEntry    == [ID |-> 0, AccountID |-> 0, Amount |-> 0]
ZeroAccount  == [ID |-> 0, Balance |-> 0]

\* var result TransferTxResult (zero value)
ZeroResult == [Transfer    |-> ZeroTransfer,
               FromAccount |-> ZeroAccount,
               ToAccount   |-> ZeroAccount,
               FromEntry   |-> ZeroEntry,
               ToEntry     |-> ZeroEntry]

\* var arg TransferTxParams (zero value)
ZeroParams == [FromAccountID |-> 0, ToAccountID |-> 0, Amount |-> 0]

\* var req transferRequest (zero value), and a handler that has not responded
NoRequest  == [FromAccountID |-> 0, ToAccountID |-> 0, Amount |-> 0, Currency |-> ""]
NoResponse == [status |-> 0, error |-> <<>>]

\* errors are sequences of strings: <<>> is nil, <<e>> a plain error, and
\* <<e, rb>> the fmt.Errorf("tx error: %v, rollback error: %v", e, rb) text
NilErr == <<>>

VARIABLES
    balance,         \* committed accounts.balance, by account id
    transfers,       \* committed rows of the transfers table
    entries,         \* committed rows of the entries table
    lockOwner,       \* row lock on each accounts row: the call holding it, or 0
    arg,             \* TransferTxParams of each call
    pc,              \* position of each call inside TransferTx / execTx
    result,          \* the result variable of each call
    err,             \* the err variable of each call (returned when pc = "done")
    local,           \* addMoney's named results account1, account2; execTx's rbErr
    tx,              \* writes of each call's transaction (private until commit)
    txState,         \* "none", "open", "committed" or "aborted"
    issued,          \* log of the store operations each call has issued
    cancelled,       \* the context of each call is done (the caller cancelled it)
    req,             \* transferRequest of each createTransfer handler
    hpc,             \* position of each handler inside createTransfer
    response         \* what each handler wrote with ctx.JSON

vars == <<balance, transfers, entries, lockOwner,
          arg, pc, result, err, local, tx, txState, issued,
          cancelled, req, hpc, response>>

\* the state of the caller of TransferTx
callerVars == <<cancelled, req, hpc, response>>

dbVars == <<balance, transfers, entries>>

\* the calls and the accounts rows of the run
Calls    == DOMAIN pc
Accounts == DOMAIN balance

\* ------------------------------------------------------------- helpers
RECURSIVE SumOver(_, _)
\* the sum of f[x] over the x in S
SumOver(S, f) ==
    IF S = {} THEN 0
    ELSE LET x == CHOOSE y \in S : TRUE IN f[x] + SumOver(S \ {x}, f)

Log(t, op, id, amt) ==
    [issued EXCEPT ![t] = Append(@, [op |-> op, id |-> id, amount |-> amt])]

\* ---------------------------------------------------------------- schema
\* FOREIGN KEY (...) REFERENCES accounts(id)
ForeignKeyOK(id) == id \in Accounts

\* ids are bigserial: unique and never reused.  The model draws the ids of a
\* call's rows from a block of its own, so that they do not depend on the
\* interleaving of the inserts.
NewTransferID(t) == t
\* faulty variant: the entry ids of every call start again at 1
NewEntryIDReused(t, k) == k
NewEntryID(t, k) == 2 * (t - 1) + k

\* ----------------------------------------------------------- TransferTx
\* execTx: q := New(tx); err = fn(q).  The work function issues every store
\* operation on q, the Queries bound to the transaction ("tx"); the Queries
\* embedded in the store run on the connection pool ("db")
\* faulty variant: the work function calls the store's own Queries, not q
QueriesOfStore(t) == "db"

QueriesOf(t) == "tx"

\* faulty variant: execTx commits whatever fn returned
ExecTxAlwaysCommit(e) == "Commit"

\* faulty variant: execTx returns the error of fn without rolling back
ExecTxNoRollback(e) == IF e # NilErr THEN "done" ELSE "Commit"

\* faulty variant: execTx runs fn again when it returned an error
ExecTxRetry(e) == IF e # NilErr THEN "CreateTransfer" ELSE "Commit"

\* execTx after fn returned e: roll back if e is an error, commit otherwise
ExecTxNext(e) == IF e # NilErr THEN "Rollback" ELSE "Commit"

\* faulty variant: the error is wrapped whether or not Rollback failed
RollbackErrAlwaysWrap(e, rbErr) == e \o (IF rbErr # NilErr THEN rbErr ELSE <<"<nil>">>)

\* faulty variant: a failed Rollback replaces the error of fn
RollbackErrOnlyRollback(e, rbErr) == IF rbErr # NilErr THEN rbErr ELSE e

\* execTx after tx.Rollback() returned rbErr: the error of fn, or
\* fmt.Errorf("tx error: %v, rollback error: %v", err, rbErr), which holds
\* the texts of both
RollbackErr(e, rbErr) == IF rbErr # NilErr THEN e \o rbErr ELSE e

\* faulty variant: the transfer row is created from the destination to the
\* source
TransferParamsReversed(p) ==
    [FromAccountID |-> p.ToAccountID, ToAccountID |-> p.FromAccountID, Amount |-> p.Amount]

\* CreateTransferParams{FromAccountID: arg.FromAccountID, ToAccountID:
\* arg.ToAccountID, Amount: arg.Amount}
TransferParams(p) ==
    [FromAccountID |-> p.FromAccountID, ToAccountID |-> p.ToAccountID, Amount |-> p.Amount]

\* faulty variant: the debit entry is not negated
EntryParamsSameSign(p) ==
    << [AccountID |-> p.FromAccountID, Amount |-> p.Amount],
       [AccountID |-> p.ToAccountID,   Amount |-> p.Amount] >>

\* faulty variant: both entries name the source account
EntryParamsSameAccount(p) ==
    << [AccountID |-> p.FromAccountID, Amount |-> -p.Amount],
       [AccountID |-> p.FromAccountID, Amount |-> p.Amount] >>

\* faulty variant: the debit is entered on the destination, the credit on the source
EntryParamsSwappedAccounts(p) ==
    << [AccountID |-> p.ToAccountID,   Amount |-> -p.Amount],
       [AccountID |-> p.FromAccountID, Amount |-> p.Amount] >>

\* the parameters of the two CreateEntry calls of TransferTx
EntryParams(p) ==
    << [AccountID |-> p.FromAccountID, Amount |-> -p.Amount],
       [AccountID |-> p.ToAccountID,   Amount |-> p.Amount] >>

\* faulty variant: the source is always updated first
AddMoneyArgsFromFirst(p) ==
    << [ID |-> p.FromAccountID, Amount |-> -p.Amount],
       [ID |-> p.ToAccountID,   Amount |-> p.Amount] >>

\* faulty variant: the destination is always updated first
AddMoneyArgsToFirst(p) ==
    << [ID |-> p.ToAccountID,   Amount |-> p.Amount],
       [ID |-> p.FromAccountID, Amount |-> -p.Amount] >>

\* faulty variant: the comparison of the ids is inverted
AddMoneyArgsLargerFirst(p) ==
    IF p.FromAccountID > p.ToAccountID
    THEN AddMoneyArgsFromFirst(p) ELSE AddMoneyArgsToFirst(p)

\* faulty variant: the second amount repeats the first
AddMoneyArgsSameAmount(p) ==
    IF p.FromAccountID < p.ToAccountID
    THEN << [ID |-> p.FromAccountID, Amount |-> -p.Amount],
            [ID |-> p.ToAccountID,   Amount |-> -p.Amount] >>
    ELSE << [ID |-> p.ToAccountID,   Amount |-> p.Amount],
            [ID |-> p.FromAccountID, Amount |-> p.Amount] >>

\* faulty variant: the source is credited and the destination debited
AddMoneyArgsSwappedAmounts(p) ==
    IF p.FromAccountID < p.ToAccountID
    THEN << [ID |-> p.FromAccountID, Amount |-> p.Amount],
            [ID |-> p.ToAccountID,   Amount |-> -p.Amount] >>
    ELSE << [ID |-> p.ToAccountID,   Amount |-> -p.Amount],
            [ID |-> p.FromAccountID, Amount |-> p.Amount] >>

\* faulty variant: the last two int64 arguments of addMoney are passed in
\* the wrong order, the amount as accountID2 and the id as amount2
AddMoneyArgsIDAsAmount(p) ==
    IF p.FromAccountID < p.ToAccountID
    THEN << [ID |-> p.FromAccountID, Amount |-> -p.Amount],
            [ID |-> p.Amount,        Amount |-> p.ToAccountID] >>
    ELSE << [ID |-> p.ToAccountID,   Amount |-> p.Amount],
            [ID |-> p.Amount,        Amount |-> p.FromAccountID] >>

\* the arguments TransferTx passes to addMoney (accountID1, amount1, accountID2, amount2)
AddMoneyArgs(p) ==
    IF p.FromAccountID < p.ToAccountID
    THEN << [ID |-> p.FromAccountID, Amount |-> -p.Amount],
            [ID |-> p.ToAccountID,   Amount |-> p.Amount] >>
    ELSE << [ID |-> p.ToAccountID,   Amount |-> p.Amount],
            [ID |-> p.FromAccountID, Amount |-> -p.Amount] >>

\* faulty variant: execTx goes on to the work function although BeginTx failed
BeginTxNextIgnoreErr(e) == "CreateTransfer"

\* faulty variant: execTx calls Rollback when BeginTx failed
BeginTxNextRollback(e) == IF e # NilErr THEN "Rollback" ELSE "CreateTransfer"

\* tx, err := store.db.BeginTx(ctx, nil); if err != nil { return err }: where
\* execTx goes after BeginTx returned e
BeginTxNext(e) == IF e # NilErr THEN "done" ELSE "CreateTransfer"

\* faulty variant: execTx drops the error of Commit
CommitResultDropped(e) == NilErr

\* return tx.Commit(): execTx returns what Commit returned
CommitResult(e) == e

\* faulty variant: TransferTx returns the zero result with an error
ReturnedZeroOnError(res, e) == IF e # NilErr THEN ZeroResult ELSE res

\* return result, err: TransferTx returns result as the work function left
\* it, whatever execTx returned
Returned(res, e) == res

\* result.FromAccount, result.ToAccount, err = addMoney(...): both branches
\* assign addMoney's first result to FromAccount and its second to ToAccount
AssignAccounts(res, account1, account2) ==
    [res EXCEPT !.FromAccount = account1, !.ToAccount = account2]

\* ---------------------------------------------------------------- context
\* ctx.Err() of a cancelled context, and the error of an operation on a
\* transaction that is over
Canceled  == <<"context canceled">>
ErrTxDone == <<"sql: transaction has already been committed or rolled back">>

\* faulty variant: the transaction is begun with context.Background()
TxCtxBackground(t) == FALSE

\* execTx: store.db.BeginTx(ctx, nil) binds the transaction to the caller's
\* ctx; is that context done
TxCtxDone(t) == cancelled[t]

\* TransferTx, addMoney: every q operation is given the caller's ctx
QueryCtxDone(t) == cancelled[t]

\* the error of a store operation of call t that the store itself would have
\* carried out: its context is done, or its transaction is over
CtxErr(t) == IF QueryCtxDone(t) THEN Canceled
             ELSE IF txState[t] # "open" THEN ErrTxDone
             ELSE NilErr

\* ------------------------------------------------------- store operations
\* the balance of row id as transaction t sees it: the committed row plus
\* t's own uncommitted update
Visible(t, id) ==
    IF QueriesOf(t) = "tx" THEN balance[id] + tx[t].delta[id] ELSE balance[id]

\* the row lock an update through handle h of call t needs is free (or its own)
CanLock(t, id) ==
    IF QueriesOf(t) = "tx" THEN lockOwner[id] \in {0, t} ELSE lockOwner[id] = 0

\* do two row-lock modes of the database exclude each other (held by one
\* transaction, wanted by another)
LockConflict(held, wanted) ==
    \/ "FOR UPDATE" \in {held, wanted}
    \/ held = "FOR NO KEY UPDATE" /\ wanted # "FOR KEY SHARE"
    \/ wanted = "FOR NO KEY UPDATE" /\ held # "FOR KEY SHARE"

\* faulty variant: AddAccountBalance takes the row lock of SELECT ... FOR UPDATE
UpdateLockModeForUpdate == "FOR UPDATE"

\* the row lock AddAccountBalance takes on the account it updates: the update
\* changes balance, which no foreign key references
UpdateLockMode == "FOR NO KEY UPDATE"

\* the row lock the foreign-key check of an insert into entries or transfers
\* takes on the account row it references
ForeignKeyLockMode == "FOR KEY SHARE"

\* an insert of call t that references account id has to wait for the holder
\* of the row lock of id
InsertWaits(t, id) ==
    /\ id \in Accounts
    /\ lockOwner[id] \notin {0, t}
    /\ LockConflict(UpdateLockMode, ForeignKeyLockMode)

\* the account the next AddAccountBalance of call t updates
NextLockOf(t) == IF pc[t] = "AddBalance1" THEN AddMoneyArgs(arg[t])[1].ID
                 ELSE IF pc[t] = "AddBalance2" THEN AddMoneyArgs(arg[t])[2].ID
                 ELSE 0

\* the call t waits for: the holder of the row lock t needs next, or 0
WaitsFor(t) ==
    LET id == NextLockOf(t) IN
    IF id \in Accounts /\ lockOwner[id] \notin {0, t} THEN lockOwner[id] ELSE 0

RECURSIVE Reaches(_, _, _)
\* does following WaitsFor from t for at most n steps arrive at goal
Reaches(t, goal, n) ==
    IF n = 0 \/ WaitsFor(t) = 0 THEN FALSE
    ELSE WaitsFor(t) = goal \/ Reaches(WaitsFor(t), goal, n - 1)

\* t is part of a circular wait on account row locks
InCycle(t) == Reaches(t, t, Cardinality(Calls))

\* the outcomes of an AddAccountBalance of call t: the update, a store
\* failure, or the database's deadlock error when t is in a circular wait
Outcomes(t) == {"ok", "fail"} \cup (IF InCycle(t) THEN {"deadlock"} ELSE {})

\* UPDATE accounts SET balance = balance + amt WHERE id = id RETURNING *
Updated(t, id, amt) == [ID |-> id, Balance |-> Visible(t, id) + amt]

\* the row locks of call t are released when its transaction ends
Release(t) == [a \in Accounts |-> IF lockOwner[a] = t THEN 0 ELSE lockOwner[a]]

\* the private write set of a transaction that has written nothing
NoWrites(A) == [transfers |-> {}, entries |-> {}, delta |-> [a \in A |-> 0]]

\* ------------------------------------------------------------ initial state
\* the state before any call has begun: accounts 1..na exist, and there are
\* the calls 1..nc
InitStore(na, nc) ==
    /\ balance = [a \in 1..na |-> InitBalance(a)]
    /\ transfers = {}
    /\ entries = {}
    /\ lockOwner = [a \in 1..na |-> 0]
    /\ result = [t \in 1..nc |-> ZeroResult]
    /\ err = [t \in 1..nc |-> NilErr]
    /\ local = [t \in 1..nc |-> [account1 |-> ZeroAccount, account2 |-> ZeroAccount,
                                 rbErr |-> NilErr]]
    /\ tx = [t \in 1..nc |-> NoWrites(1..na)]
    /\ txState = [t \in 1..nc |-> "none"]
    /\ issued = [t \in 1..nc |-> <<>>]
    /\ cancelled = [t \in 1..nc |-> FALSE]
    /\ response = [t \in 1..nc |-> NoResponse]

\* TransferTx is called directly, as the store tests do
InitWith(na, nc, args) ==
    /\ InitStore(na, nc)
    /\ arg = args
    /\ pc = [t \in 1..nc |-> "BeginTx"]
    /\ req = [t \in 1..nc |-> NoRequest]
    /\ hpc = [t \in 1..nc |-> "none"]

\* requests over the existing accounts and one id that has no row
Requests == [FromAccountID : 1..(NumAccounts + 1), ToAccountID : 1..(NumAccounts + 1),
             Amount : {amount}]

\* the calls are interchangeable: each multiset of requests is listed once
Ordered(args) ==
    \A t \in 1..(NumCalls - 1) :
        \/ args[t].FromAccountID < args[t + 1].FromAccountID
        \/ /\ args[t].FromAccountID = args[t + 1].FromAccountID
           /\ args[t].ToAccountID <= args[t + 1].ToAccountID

Init ==
    \E args \in [1..NumCalls -> Requests] :
        /\ Ordered(args)
        /\ InitWith(NumAccounts, NumCalls, args)

\* --------------------------------------------------------------- actions
\* execTx: tx, err := store.db.BeginTx(ctx, nil); if err != nil { return err }
BeginTx(t) ==
    /\ pc[t] = "BeginTx"
    /\ \E ok \in BOOLEAN :
         IF ok /\ ~TxCtxDone(t)
         THEN /\ txState' = [txState EXCEPT ![t] = "open"]
              /\ pc' = [pc EXCEPT ![t] = BeginTxNext(NilErr)]
              /\ err' = err
         ELSE /\ txState' = txState
              /\ pc' = [pc EXCEPT ![t] = BeginTxNext(IF ok THEN Canceled ELSE <<"BeginTx">>)]
              /\ err' = [err EXCEPT ![t] = IF ok THEN Canceled ELSE <<"BeginTx">>]
    /\ result' = IF pc'[t] = "done" THEN [result EXCEPT ![t] = Returned(@, err'[t])]
                  ELSE result
    /\ issued' = Log(t, "BeginTx", 0, 0)
    /\ UNCHANGED <<dbVars, lockOwner, arg, local, tx>>
    /\ UNCHANGED callerVars

\* result.Transfer, err = q.CreateTransfer(ctx, ...); if err != nil { return err }
CreateTransfer(t) ==
    /\ pc[t] = "CreateTransfer"
    /\ LET p   == TransferParams(arg[t])
           row == [ID |-> NewTransferID(t), FromAccountID |-> p.FromAccountID,
                   ToAccountID |-> p.ToAccountID, Amount |-> p.Amount]
           fk  == ForeignKeyOK(p.FromAccountID) /\ ForeignKeyOK(p.ToAccountID)
           wt  == InsertWaits(t, p.FromAccountID) \/ InsertWaits(t, p.ToAccountID)
       IN \E ok \in {b \in BOOLEAN : b => ~wt} :
            IF ok /\ fk /\ CtxErr(t) = NilErr
            THEN /\ tx' = IF QueriesOf(t) = "tx"
                          THEN [tx EXCEPT ![t].transfers = @ \cup {row}] ELSE tx
                 /\ transfers' = IF QueriesOf(t) = "tx" THEN transfers
                                 ELSE transfers \cup {row}
                 /\ result' = [result EXCEPT ![t].Transfer = row]
                 /\ pc' = [pc EXCEPT ![t] = "CreateEntry1"]
                 /\ err' = err
            ELSE LET e == IF ~ok THEN <<"CreateTransfer">>
                          ELSE IF CtxErr(t) # NilErr THEN CtxErr(t)
                          ELSE <<"foreign key violation">>
                 IN /\ UNCHANGED <<tx, transfers>>
                    /\ result' = [result EXCEPT ![t].Transfer = ZeroTransfer]
                    /\ pc' = [pc EXCEPT ![t] = ExecTxNext(e)]
                    /\ err' = [err EXCEPT ![t] = e]
    /\ issued' = Log(t, "CreateTransfer", 0, TransferParams(arg[t]).Amount)
    /\ UNCHANGED <<balance, entries, lockOwner, arg, local, txState>>
    /\ UNCHANGED callerVars

\* the k-th CreateEntry of call t, stored in result[field]
CreateEntry(t, k, field, nextpc) ==
    LET p   == EntryParams(arg[t])[k]
        row == [ID |-> NewEntryID(t, k), AccountID |-> p.AccountID, Amount |-> p.Amount]
    IN /\ \E ok \in {b \in BOOLEAN : b => ~InsertWaits(t, p.AccountID)} :
            IF ok /\ ForeignKeyOK(p.AccountID) /\ CtxErr(t) = NilErr
            THEN /\ tx' = IF QueriesOf(t) = "tx"
                          THEN [tx EXCEPT ![t].entries = @ \cup {row}] ELSE tx
                 /\ entries' = IF QueriesOf(t) = "tx" THEN entries
                               ELSE entries \cup {row}
                 /\ result' = [result EXCEPT ![t][field] = row]
                 /\ pc' = [pc EXCEPT ![t] = nextpc]
                 /\ err' = err
            ELSE LET e == IF ~ok THEN <<"CreateEntry">>
                          ELSE IF CtxErr(t) # NilErr THEN CtxErr(t)
                          ELSE <<"foreign key violation">>
                 IN /\ UNCHANGED <<tx, entries>>
                    /\ result' = [result EXCEPT ![t][field] = ZeroEntry]
                    /\ pc' = [pc EXCEPT ![t] = ExecTxNext(e)]
                    /\ err' = [err EXCEPT ![t] = e]
       /\ issued' = Log(t, "CreateEntry", p.AccountID, p.Amount)
       /\ UNCHANGED <<balance, transfers, lockOwner, arg, local, txState>>
       /\ UNCHANGED callerVars

\* result.FromEntry, err = q.CreateEntry(ctx, {arg.FromAccountID, -arg.Amount})
CreateEntry1(t) ==
    /\ pc[t] = "CreateEntry1"
    /\ CreateEntry(t, 1, "FromEntry", "CreateEntry2")

\* result.ToEntry, err = q.CreateEntry(ctx, {arg.ToAccountID, arg.Amount})
CreateEntry2(t) ==
    /\ pc[t] = "CreateEntry2"
    /\ CreateEntry(t, 2, "ToEntry", "AddBalance1")

\* faulty variant: the accounts table carries CHECK (balance >= 0)
BalanceCheckNonNegative(b) == b >= 0

\* what the accounts table demands of a balance: balance BIGINT NOT NULL, and
\* no CHECK constraint
BalanceCheck(b) == b \in Int

\* the store carries out the update a of call t
UpdateOK(t, a) ==
    /\ a.ID \in Accounts
    /\ CtxErr(t) = NilErr
    /\ BalanceCheck(Visible(t, a.ID) + a.Amount)

\* the error of an AddAccountBalance a by call t that did not update
AddBalanceErr(t, o, a) ==
    IF o = "deadlock" THEN <<"deadlock detected">>
    ELSE IF o = "ok" /\ CtxErr(t) # NilErr THEN CtxErr(t)
    ELSE IF o = "ok" /\ a.ID \notin Accounts THEN <<"sql: no rows in result set">>
    ELSE IF o = "ok" THEN <<"check constraint violation">>
    ELSE <<"AddAccountBalance">>

\* the effect of a successful AddAccountBalance(a.ID, a.Amount) of call t on
\* the row lock, the private writes and the committed row
AddBalanceWrite(t, a) ==
    /\ CanLock(t, a.ID)
    /\ lockOwner' = IF QueriesOf(t) = "tx" THEN [lockOwner EXCEPT ![a.ID] = t] ELSE lockOwner
    /\ tx' = IF QueriesOf(t) = "tx" THEN [tx EXCEPT ![t].delta[a.ID] = @ + a.Amount] ELSE tx
    /\ balance' = IF QueriesOf(t) = "tx" THEN balance
                  ELSE [balance EXCEPT ![a.ID] = @ + a.Amount]

\* addMoney: account1, err = q.AddAccountBalance(ctx, {accountID1, amount1})
AddBalance1(t) ==
    /\ pc[t] = "AddBalance1"
    /\ LET a == AddMoneyArgs(arg[t])[1] IN
       /\ \E o \in Outcomes(t) :
            IF o = "ok" /\ UpdateOK(t, a)
            THEN /\ AddBalanceWrite(t, a)
                 /\ local' = [local EXCEPT ![t].account1 = Updated(t, a.ID, a.Amount)]
                 /\ pc' = [pc EXCEPT ![t] = "AddBalance2"]
                 /\ UNCHANGED <<result, err>>
            ELSE \* return account1, account2, err
                 /\ result' = [result EXCEPT ![t] = AssignAccounts(@, ZeroAccount, ZeroAccount)]
                 /\ err' = [err EXCEPT ![t] = AddBalanceErr(t, o, a)]
                 /\ pc' = [pc EXCEPT ![t] = ExecTxNext(AddBalanceErr(t, o, a))]
                 /\ UNCHANGED <<lockOwner, tx, local, balance>>
       /\ issued' = Log(t, "AddAccountBalance", a.ID, a.Amount)
    /\ UNCHANGED <<transfers, entries, arg, txState>>
    /\ UNCHANGED callerVars

\* addMoney: account2, err = q.AddAccountBalance(ctx, {accountID2, amount2});
\* addMoney returns and TransferTx assigns result.FromAccount, result.ToAccount
AddBalance2(t) ==
    /\ pc[t] = "AddBalance2"
    /\ LET a == AddMoneyArgs(arg[t])[2] IN
       /\ \E o \in Outcomes(t) :
            IF o = "ok" /\ UpdateOK(t, a)
            THEN /\ AddBalanceWrite(t, a)
                 /\ local' = [local EXCEPT ![t].account2 = Updated(t, a.ID, a.Amount)]
                 /\ result' = [result EXCEPT ![t] =
                                  AssignAccounts(@, local[t].account1, Updated(t, a.ID, a.Amount))]
                 /\ pc' = [pc EXCEPT ![t] = ExecTxNext(NilErr)]
                 /\ err' = err
            ELSE /\ result' = [result EXCEPT ![t] = AssignAccounts(@, local[t].account1, ZeroAccount)]
                 /\ err' = [err EXCEPT ![t] = AddBalanceErr(t, o, a)]
                 /\ pc' = [pc EXCEPT ![t] = ExecTxNext(AddBalanceErr(t, o, a))]
                 /\ UNCHANGED <<lockOwner, tx, local, balance>>
       /\ issued' = Log(t, "AddAccountBalance", a.ID, a.Amount)
    /\ UNCHANGED <<transfers, entries, arg, txState>>
    /\ UNCHANGED callerVars

\* execTx: return tx.Commit()
Commit(t) ==
    /\ pc[t] = "Commit"
    /\ \E ok \in BOOLEAN :
         IF ok /\ ~TxCtxDone(t) /\ txState[t] = "open"
         THEN /\ balance' = [a \in Accounts |-> balance[a] + tx[t].delta[a]]
              /\ transfers' = transfers \cup tx[t].transfers
              /\ entries' = entries \cup tx[t].entries
              /\ txState' = [txState EXCEPT ![t] = "committed"]
              /\ err' = [err EXCEPT ![t] = CommitResult(NilErr)]
         ELSE /\ UNCHANGED dbVars
              /\ txState' = [txState EXCEPT ![t] = "aborted"]
              /\ err' = [err EXCEPT ![t] = CommitResult(IF ~ok THEN <<"Commit">>
                                                         ELSE IF TxCtxDone(t) THEN Canceled
                                                         ELSE ErrTxDone)]
    /\ lockOwner' = Release(t)
    /\ pc' = [pc EXCEPT ![t] = "done"]
    /\ result' = [result EXCEPT ![t] = Returned(@, err'[t])]
    /\ issued' = Log(t, "Commit", 0, 0)
    /\ UNCHANGED <<arg, local, tx>>
    /\ UNCHANGED callerVars

\* execTx: if rbErr := tx.Rollback(); rbErr != nil { return fmt.Errorf(...) }; return err
Rollback(t) ==
    /\ pc[t] = "Rollback"
    /\ \E ok \in BOOLEAN :
         LET rbErr == IF ~ok THEN <<"Rollback">>
                      ELSE IF txState[t] # "open" THEN ErrTxDone
                      ELSE NilErr IN
         /\ local' = [local EXCEPT ![t].rbErr = rbErr]
         /\ err' = [err EXCEPT ![t] = RollbackErr(@, rbErr)]
    /\ txState' = [txState EXCEPT ![t] = "aborted"]
    /\ lockOwner' = Release(t)
    /\ pc' = [pc EXCEPT ![t] = "done"]
    /\ result' = [result EXCEPT ![t] = Returned(@, err'[t])]
    /\ issued' = Log(t, "Rollback", 0, 0)
    /\ UNCHANGED <<dbVars, arg, tx>>
    /\ UNCHANGED callerVars

Next ==
    \/ \E t \in Calls : BeginTx(t)
    \/ \E t \in Calls : CreateTransfer(t)
    \/ \E t \in Calls : CreateEntry1(t)
    \/ \E t \in Calls : CreateEntry2(t)
    \/ \E t \in Calls : AddBalance1(t)
    \/ \E t \in Calls : AddBalance2(t)
    \/ \E t \in Calls : Commit(t)
    \/ \E t \in Calls : Rollback(t)

\* any requests over the accounts of the tests and one missing id
Spec == Init /\ [][Next]_vars

\* concurrent transfers no two of which share an account: call t moves a
\* small amount between accounts 2t-1 and 2t, in either direction
InitDisjoint ==
    \E forward \in [1..NumCalls -> BOOLEAN] : \E k \in 1..MaxAmount :
        InitWith(2 * NumCalls, NumCalls,
                 [t \in 1..NumCalls |->
                     IF forward[t]
                     THEN [FromAccountID |-> 2 * t - 1, ToAccountID |-> 2 * t, Amount |-> k]
                     ELSE [FromAccountID |-> 2 * t, ToAccountID |-> 2 * t - 1, Amount |-> k]])

SpecDisjoint == InitDisjoint /\ [][Next]_vars

\* the store answers every operation of this step of call t: the step sets no
\* error, or an error the transfer itself caused (a missing account, a
\* deadlock), and a Rollback succeeds
Answered(t) ==
    /\ err'[t] # err[t] =>
          err'[t] \in {NilErr, <<"foreign key violation">>, <<"deadlock detected">>, <<"sql: no rows in result set">>}
    /\ local'[t].rbErr = NilErr

\* one step of call t with the store answering
StepAnswered(t) ==
    \/ BeginTx(t) /\ Answered(t)
    \/ CreateTransfer(t) /\ Answered(t)
    \/ CreateEntry1(t) /\ Answered(t)
    \/ CreateEntry2(t) /\ Answered(t)
    \/ AddBalance1(t) /\ Answered(t)
    \/ AddBalance2(t) /\ Answered(t)
    \/ Commit(t) /\ Answered(t)
    \/ Rollback(t) /\ Answered(t)

\* transfers between accounts 1 and 2, alternating direction; one of them may
\* name a destination that has no row
InitLive ==
    \E m \in 0..NumCalls :
        InitWith(NumAccounts, NumCalls,
                 [t \in 1..NumCalls |->
                     IF t = m
                     THEN [FromAccountID |-> 1, ToAccountID |-> NumAccounts + 1, Amount |-> amount]
                     ELSE IF t % 2 = 1
                     THEN [FromAccountID |-> 1, ToAccountID |-> 2, Amount |-> amount]
                     ELSE [FromAccountID |-> 2, ToAccountID |-> 1, Amount |-> amount]])

NextLive ==
    \/ \E t \in Calls : BeginTx(t) /\ Answered(t)
    \/ \E t \in Calls : CreateTransfer(t) /\ Answered(t)
    \/ \E t \in Calls : CreateEntry1(t) /\ Answered(t)
    \/ \E t \in Calls : CreateEntry2(t) /\ Answered(t)
    \/ \E t \in Calls : AddBalance1(t) /\ Answered(t)
    \/ \E t \in Calls : AddBalance2(t) /\ Answered(t)
    \/ \E t \in Calls : Commit(t) /\ Answered(t)
    \/ \E t \in Calls : Rollback(t) /\ Answered(t)

\* every call is scheduled: a step it can take with the store answering is
\* not put off for ever
SpecLive == InitLive /\ [][NextLive]_vars /\ \A t \in 1..NumCalls : WF_vars(StepAnswered(t))

\* the caller of call t cancels ctx while the call is in flight
Cancel(t) ==
    /\ ~cancelled[t]
    /\ ~(pc[t] \in {"idle", "done"})
    /\ cancelled' = [cancelled EXCEPT ![t] = TRUE]
    /\ UNCHANGED <<dbVars, lockOwner, arg, pc, result, err, local, tx, txState,
                   issued, req, hpc, response>>

\* the context of an open transaction is done: database/sql rolls the
\* transaction back (its row locks are released) whatever the call is doing
AwaitDone(t) ==
    /\ TxCtxDone(t)
    /\ txState[t] = "open"
    /\ txState' = [txState EXCEPT ![t] = "aborted"]
    /\ lockOwner' = Release(t)
    /\ UNCHANGED <<dbVars, arg, pc, result, err, local, tx, issued>>
    /\ UNCHANGED callerVars

\* transfers in both directions between accounts 1 and 2, any of which the
\* caller may cancel
InitCancel ==
    InitWith(NumAccounts, NumCalls,
             [t \in 1..NumCalls |->
                 IF t % 2 = 1
                 THEN [FromAccountID |-> 1, ToAccountID |-> 2, Amount |-> amount]
                 ELSE [FromAccountID |-> 2, ToAccountID |-> 1, Amount |-> amount]])

NextCancel ==
    \/ \E t \in Calls : Cancel(t)
    \/ \E t \in Calls : AwaitDone(t)
    \/ \E t \in Calls : BeginTx(t)
    \/ \E t \in Calls : CreateTransfer(t)
    \/ \E t \in Calls : CreateEntry1(t)
    \/ \E t \in Calls : CreateEntry2(t)
    \/ \E t \in Calls : AddBalance1(t)
    \/ \E t \in Calls : AddBalance2(t)
    \/ \E t \in Calls : Commit(t)
    \/ \E t \in Calls : Rollback(t)

SpecCancel == InitCancel /\ [][NextCancel]_vars

\* n concurrent transfers of one amount from account x to account y (TestTransferTx)
InitSame ==
    \E x \in 1..NumAccounts : \E y \in (1..NumAccounts) \ {x} : \E k \in 1..MaxAmount :
        InitWith(NumAccounts, NumCalls,
                 [t \in 1..NumCalls |->
                     [FromAccountID |-> x, ToAccountID |-> y, Amount |-> k * amount]])

SpecSame == InitSame /\ [][Next]_vars

\* n concurrent transfers between x and y, alternating direction
\* (TestTransferTxDeadlock), of any amounts
InitAlt ==
    \E x \in 1..NumAccounts : \E y \in (1..NumAccounts) \ {x} :
    \E k \in [1..NumCalls -> 1..MaxAmount] :
        InitWith(NumAccounts, NumCalls,
                 [t \in 1..NumCalls |->
                     IF t % 2 = 1
                     THEN [FromAccountID |-> x, ToAccountID |-> y, Amount |-> k[t] * amount]
                     ELSE [FromAccountID |-> y, ToAccountID |-> x, Amount |-> k[t] * amount]])

SpecAlt == InitAlt /\ [][Next]_vars

\* the ring 1->2, 2->3, ..., n->1 of n concurrent transfers, or its reverse
InitRing ==
    \E forward \in BOOLEAN :
        InitWith(RingSize, RingSize,
                 [t \in 1..RingSize |->
                     IF forward
                     THEN [FromAccountID |-> t, ToAccountID |-> (t % RingSize) + 1, Amount |-> amount]
                     ELSE [FromAccountID |-> (t % RingSize) + 1, ToAccountID |-> t, Amount |-> amount]])

SpecRing == InitRing /\ [][Next]_vars

\* --------------------------------------------------------- createTransfer
\* the currency column of the accounts rows: the accounts of the tests hold
\* one currency, a further account another one, stored in lower case
AccountCurrency(a) == IF a <= NumAccounts THEN "USD" ELSE "eur"

\* strings.EqualFold on the currency codes in use
Fold(c) == IF c = "usd" THEN "USD" ELSE IF c = "eur" THEN "EUR" ELSE c

EqualFold(c, d) == Fold(c) = Fold(d)

\* faulty variant: the currencies are compared exactly
EqualExact(c, d) == c = d

\* strings.EqualFold(account.Currency, currency)
CurrencyMatches(c, d) == EqualFold(c, d)

\* faulty variant: the amount is bound without "required,gt=0"
BindingOKAnyAmount(r) ==
    /\ r.FromAccountID >= 1
    /\ r.ToAccountID >= 1
    /\ r.Currency \in {"USD", "EUR", "CAD"}

\* binding:"required,min=1", "required,gt=0", "required,oneof=USD EUR CAD"
BindingOK(r) ==
    /\ r.FromAccountID >= 1
    /\ r.ToAccountID >= 1
    /\ r.Amount > 0
    /\ r.Currency \in {"USD", "EUR", "CAD"}

ErrNoRows == <<"sql: no rows in result set">>

\* server.store.GetAccount(ctx, id): the error it returns when the store
\* answers (ok) or fails (not ok)
GetAccountErr(ok, id) ==
    IF ~ok THEN <<"GetAccount">> ELSE IF id \in Accounts THEN NilErr ELSE ErrNoRows

\* faulty variant: a missing account passes the check
ValidAccountStatusNoRowsPass(e, rowCurrency, currency) ==
    IF e # NilErr THEN (IF e = ErrNoRows THEN 0 ELSE 500)
    ELSE IF ~CurrencyMatches(rowCurrency, currency) THEN 400 ELSE 0

\* faulty variant: the currency is not checked
ValidAccountStatusAnyCurrency(e, rowCurrency, currency) ==
    IF e # NilErr THEN (IF e = ErrNoRows THEN 404 ELSE 500) ELSE 0

\* validAccount: the status it responds with, 0 when it returns true
ValidAccountStatus(e, rowCurrency, currency) ==
    IF e # NilErr THEN (IF e = ErrNoRows THEN 404 ELSE 500)
    ELSE IF ~CurrencyMatches(rowCurrency, currency) THEN 400 ELSE 0

\* the error text validAccount responds with
ValidAccountError(status) ==
    IF status = 404 THEN <<"account not found">>
    ELSE IF status = 500 THEN <<"error fetching account">>
    ELSE IF status = 400 THEN <<"currency mismatch">>
    ELSE NilErr

\* if err := ctx.ShouldBindJSON(&req); err != nil { ctx.JSON(400, ...); return }
ShouldBindJSON(t) ==
    /\ hpc[t] = "bind"
    /\ IF BindingOK(req[t])
       THEN /\ hpc' = [hpc EXCEPT ![t] = "validFrom"]
            /\ response' = response
       ELSE /\ hpc' = [hpc EXCEPT ![t] = "done"]
            /\ response' = [response EXCEPT ![t] = [status |-> 400, error |-> <<"binding">>]]
    /\ UNCHANGED <<dbVars, lockOwner, arg, pc, result, err, local, tx, txState,
                   issued, cancelled, req>>

\* server.validAccount(ctx, id, req.Currency) of handler t; next is where the
\* handler goes on when the account is valid
validAccount(t, id, next) ==
    \E ok \in BOOLEAN :
        LET e      == GetAccountErr(ok, id)
            cur    == IF id \in Accounts THEN AccountCurrency(id) ELSE ""
            status == ValidAccountStatus(e, cur, req[t].Currency)
        IN /\ issued' = Log(t, "GetAccount", id, 0)
           /\ IF status = 0
              THEN /\ hpc' = [hpc EXCEPT ![t] = next]
                   /\ response' = response
              ELSE /\ hpc' = [hpc EXCEPT ![t] = "done"]
                   /\ response' = [response EXCEPT ![t] =
                                      [status |-> status, error |-> ValidAccountError(status)]]

\* if !server.validAccount(ctx, req.FromAccountID, req.Currency) { return }
ValidFrom(t) ==
    /\ hpc[t] = "validFrom"
    /\ validAccount(t, req[t].FromAccountID, "validTo")
    /\ UNCHANGED <<dbVars, lockOwner, arg, pc, result, err, local, tx, txState,
                   cancelled, req>>

\* if !server.validAccount(ctx, req.ToAccountID, req.Currency) { return };
\* arg := db.TransferTxParams{...}; server.store.TransferTx(ctx, arg) begins
ValidTo(t) ==
    /\ hpc[t] = "validTo"
    /\ validAccount(t, req[t].ToAccountID, "TransferTx")
    /\ IF hpc'[t] = "TransferTx"
       THEN /\ arg' = [arg EXCEPT ![t] = [FromAccountID |-> req[t].FromAccountID,
                                          ToAccountID   |-> req[t].ToAccountID,
                                          Amount        |-> req[t].Amount]]
            /\ pc' = [pc EXCEPT ![t] = "BeginTx"]
       ELSE UNCHANGED <<arg, pc>>
    /\ UNCHANGED <<dbVars, lockOwner, result, err, local, tx, txState, cancelled, req>>

\* result, err := server.store.TransferTx(ctx, arg) has returned:
\* ctx.JSON(500, errorResponse(err)) or ctx.JSON(200, result)
Respond(t) ==
    /\ hpc[t] = "TransferTx"
    /\ pc[t] = "done"
    /\ hpc' = [hpc EXCEPT ![t] = "done"]
    /\ response' = [response EXCEPT ![t] =
                       IF err[t] # NilErr THEN [status |-> 500, error |-> err[t]]
                       ELSE [status |-> 200, error |-> NilErr]]
    /\ UNCHANGED <<dbVars, lockOwner, arg, pc, result, err, local, tx, txState,
                   issued, cancelled, req>>

\* the requests a client can send: ids from 0 to one past the last account,
\* an amount that is negative, zero or positive, a currency of the accounts
\* or another
ApiRequests == [FromAccountID : 0..(NumAccounts + 2), ToAccountID : 0..(NumAccounts + 2),
                Amount : {-amount, 0, amount}, Currency : {"USD", "EUR", "GBP"}]

\* concurrent createTransfer requests: the first is any request, the others
\* ask for a transfer from account 1 to account 2
InitApi ==
    \E r \in ApiRequests :
        /\ InitStore(NumAccounts + 1, NumCalls)
        /\ arg = [t \in 1..NumCalls |-> ZeroParams]
        /\ pc = [t \in 1..NumCalls |-> "idle"]
        /\ req = [t \in 1..NumCalls |->
                     IF t = 1 THEN r
                     ELSE [FromAccountID |-> 1, ToAccountID |-> 2,
                           Amount |-> amount, Currency |-> "USD"]]
        /\ hpc = [t \in 1..NumCalls |-> "bind"]

\* the steps of createTransfer and of the TransferTx it calls
NextApi ==
    \/ \E t \in Calls : ShouldBindJSON(t)
    \/ \E t \in Calls : ValidFrom(t)
    \/ \E t \in Calls : ValidTo(t)
    \/ \E t \in Calls : Respond(t)
    \/ \E t \in Calls : BeginTx(t)
    \/ \E t \in Calls : CreateTransfer(t)
    \/ \E t \in Calls : CreateEntry1(t)
    \/ \E t \in Calls : CreateEntry2(t)
    \/ \E t \in Calls : AddBalance1(t)
    \/ \E t \in Calls : AddBalance2(t)
    \/ \E t \in Calls : Commit(t)
    \/ \E t \in Calls : Rollback(t)

SpecApi == InitApi /\ [][NextApi]_vars

\* ------------------------------------------------------------ properties
Done(t)      == pc[t] = "done"
Succeeded(t) == Done(t) /\ err[t] = NilErr
Failed(t)    == Done(t) /\ err[t] # NilErr
AllDone      == \A t \in Calls : Done(t)
AllSucceeded == \A t \in Calls : Succeeded(t)

\* the committed rows that call t inserted
TransferRowsOf(t) == {r \in transfers : r.ID = NewTransferID(t)}
EntryRowsOf(t)    == {e \in entries : e.ID \in {NewEntryID(t, 1), NewEntryID(t, 2)}}

\* the rows a transfer p of call t consists of
TransferRow(t, p) == [ID |-> NewTransferID(t), FromAccountID |-> p.FromAccountID,
                      ToAccountID |-> p.ToAccountID, Amount |-> p.Amount]
DebitRow(t, p)    == [ID |-> NewEntryID(t, 1), AccountID |-> p.FromAccountID, Amount |-> -p.Amount]
CreditRow(t, p)   == [ID |-> NewEntryID(t, 2), AccountID |-> p.ToAccountID, Amount |-> p.Amount]

\* the change a transfer p makes to the balance of account a
Delta(p, a) == (IF a = p.ToAccountID THEN p.Amount ELSE 0)
               - (IF a = p.FromAccountID THEN p.Amount ELSE 0)

\* the balance of a after exactly the transfers of the calls in S were applied
BalanceAfter(S, a) == InitBalance(a) + SumOver(S, [u \in S |-> Delta(arg[u], a)])

\* the calls whose transfer row is in the committed transfers table
Present == {t \in Calls : TransferRowsOf(t) # {}}

\* the call returned an error from begin, an insert or a balance update
FailedInWork(t) == Failed(t) /\ err[t][1] # "Commit"

\* C1: after a TransferTx call has returned an error (from begin, the transfer
\* insert, an entry insert or a balance update), the committed database holds
\* no transfer row and no entry of that call, and every balance is what the
\* other committed transfers alone make it
C1_AtomicityOnFailure ==
    \A t \in Calls :
        FailedInWork(t) =>
            /\ TransferRowsOf(t) = {}
            /\ EntryRowsOf(t) = {}
            /\ \A a \in Accounts : balance[a] = BalanceAfter(Present \ {t}, a)

\* a call failed at its second balance update, after it had inserted its three
\* rows and updated one balance, and another call has committed
C1_Witness ==
    \E t \in Calls : \E u \in Calls \ {t} :
        /\ Failed(t) /\ err[t][1] = "AddAccountBalance"
        /\ Cardinality(tx[t].entries) = 2
        /\ \E a \in Accounts : tx[t].delta[a] # 0
        /\ Succeeded(u)

\* C2: in every committed state each call has either all its effects there
\* (its transfer row, its debit and its credit entry, and both balance deltas)
\* or none of them
C2_AllOrNothing ==
    /\ \A t \in Calls :
         IF t \in Present
         THEN /\ TransferRowsOf(t) = {TransferRow(t, arg[t])}
              /\ EntryRowsOf(t) = {DebitRow(t, arg[t]), CreditRow(t, arg[t])}
         ELSE EntryRowsOf(t) = {}
    /\ \A a \in Accounts : balance[a] = BalanceAfter(Present, a)

\* one call has committed while another, still in flight, has inserted its rows
\* and updated a balance inside its open transaction
C2_Witness ==
    \E t \in Calls : \E u \in Calls \ {t} :
        /\ Succeeded(t) /\ t \in Present
        /\ pc[u] = "AddBalance2"
        /\ Cardinality(tx[u].entries) = 2
        /\ \E a \in Accounts : tx[u].delta[a] # 0

\* the errors the environment injects: a store operation that failed for a
\* reason outside the transfer (connection lost, statement cancelled)
StoreFaults == {"BeginTx", "CreateTransfer", "CreateEntry", "AddAccountBalance", "Commit"}

\* no call has returned an error of the transfer's own making
NoOwnError == \A t \in Calls : Done(t) => (err[t] = NilErr \/ err[t][1] \in StoreFaults)

\* while calls are in flight, one of them can take its next step without waiting
CanProceed == AllDone \/ \E t \in Calls : ~Done(t) /\ WaitsFor(t) = 0

\* C3: concurrent transfers alternating direction between two accounts never
\* deadlock: there is no circular wait, a call in flight can always proceed, no
\* call returns an error unless the store failed under it, and once all have
\* returned nil the two balances are the opening balances plus the net signed
\* sum of the amounts (the opening balances when as many of one amount went
\* each way)
C3_OppositeDirections ==
    /\ \A t \in Calls : ~InCycle(t)
    /\ CanProceed
    /\ NoOwnError
    /\ AllSucceeded => \A a \in Accounts : balance[a] = BalanceAfter(Calls, a)
    /\ (/\ AllSucceeded
        /\ Cardinality(Calls) % 2 = 0
        /\ \A t \in Calls : arg[t].Amount = arg[1].Amount)
           => \A a \in Accounts : balance[a] = InitBalance(a)

\* all calls returned nil, two of them in opposite directions, and one of them
\* saw the other's committed update in its snapshot
C3_Witness ==
    /\ AllSucceeded
    /\ \E t \in Calls : \E u \in Calls \ {t} :
         /\ arg[t].FromAccountID = arg[u].ToAccountID
         /\ arg[t].ToAccountID = arg[u].FromAccountID
         /\ result[t].FromAccount.Balance
              = InitBalance(arg[t].FromAccountID) - arg[t].Amount + arg[u].Amount

\* C4: n concurrent transfers of amount A from X to Y never fail on their own,
\* and once all have returned nil X holds its opening balance minus n*A and Y
\* its opening balance plus n*A
C4_NoLostUpdates ==
    LET X == arg[1].FromAccountID
        Y == arg[1].ToAccountID
        A == arg[1].Amount
        n == Cardinality(Calls)
    IN /\ NoOwnError
       /\ AllSucceeded => /\ balance[X] = InitBalance(X) - n * A
                          /\ balance[Y] = InitBalance(Y) + n * A

\* all calls returned nil, and both updated the same two rows
C4_Witness ==
    /\ AllSucceeded
    /\ Cardinality(Calls) >= 2
    /\ \A t \in Calls : arg[t] = arg[1]
    /\ balance[arg[1].FromAccountID] # InitBalance(arg[1].FromAccountID) - arg[1].Amount

\* C5: on success result.FromAccount is the row of the account FromAccountID
\* and result.ToAccount the row of the account ToAccountID, whichever of the
\* two ids is smaller
C5_ResultLabeling ==
    \A t \in Calls :
        (Succeeded(t) /\ arg[t].FromAccountID # arg[t].ToAccountID) =>
            /\ result[t].FromAccount.ID = arg[t].FromAccountID
            /\ result[t].ToAccount.ID = arg[t].ToAccountID

IsAddBalance(o) == o.op = "AddAccountBalance"

\* the AddAccountBalance operations call t has issued, in order
AddBalanceOps(t) == SelectSeq(issued[t], IsAddBalance)

MinID(p) == IF p.FromAccountID < p.ToAccountID THEN p.FromAccountID ELSE p.ToAccountID
MaxID(p) == IF p.FromAccountID < p.ToAccountID THEN p.ToAccountID ELSE p.FromAccountID

\* C6: a TransferTx issues its first AddAccountBalance on the account with the
\* smaller id and its second on the one with the larger id, and never holds
\* the row lock of the larger id without that of the smaller
C6_LockOrder ==
    \A t \in Calls :
        LET ops == AddBalanceOps(t) IN
        /\ Len(ops) <= 2
        /\ Len(ops) >= 1 => ops[1].id = MinID(arg[t])
        /\ Len(ops) = 2 => ops[2].id = MaxID(arg[t])
        /\ \A a \in Accounts :
             (lockOwner[a] = t /\ a = MaxID(arg[t])) => lockOwner[MinID(arg[t])] = t

\* a transfer whose destination has the smaller id has issued both updates,
\* the destination's first, and holds both row locks
C6_Witness ==
    \E t \in Calls :
        /\ arg[t].ToAccountID < arg[t].FromAccountID
        /\ Len(AddBalanceOps(t)) = 2
        /\ AddBalanceOps(t)[1].id = arg[t].ToAccountID
        /\ lockOwner[arg[t].ToAccountID] = t
        /\ lockOwner[arg[t].FromAccountID] = t

\* C7: no reachable state of a ring of concurrent transfers A->B, B->C, ...,
\* back to A holds a circular wait among the calls on account row locks, and a
\* call in flight can always proceed
C7_NoCircularWait ==
    /\ \A t \in Calls : ~InCycle(t)
    /\ CanProceed
    /\ \A t \in Calls : err[t] # <<"deadlock detected">>

\* two calls of the ring wait for row locks at the same time
C7_Witness ==
    \E t \in Calls : \E u \in Calls \ {t} : WaitsFor(t) # 0 /\ WaitsFor(u) # 0

\* the commit of call t succeeds in this step
Commits(t) == pc[t] = "Commit" /\ pc'[t] = "done" /\ err'[t] = NilErr

\* C8: the commit of a successful TransferTx(from, to, amount), from # to,
\* takes amount off the stored balance of from, adds it to the stored balance
\* of to, and leaves the sum of the two unchanged
C8_BalanceConservation ==
    [][\A t \in Calls :
          (Commits(t) /\ arg[t].FromAccountID # arg[t].ToAccountID) =>
              LET f == arg[t].FromAccountID
                  g == arg[t].ToAccountID
              IN /\ balance'[f] = balance[f] - arg[t].Amount
                 /\ balance'[g] = balance[g] + arg[t].Amount
                 /\ balance'[f] + balance'[g] = balance[f] + balance[g]]_vars

\* a transfer between two different accounts has committed
C8_Witness ==
    \E t \in Calls :
        /\ Succeeded(t)
        /\ arg[t].FromAccountID # arg[t].ToAccountID
        /\ balance[arg[t].FromAccountID] # InitBalance(arg[t].FromAccountID)

\* C9: a successful TransferTx(from, to, amount) has created exactly two
\* entries, (from, -amount) and (to, +amount), both committed and returned as
\* FromEntry and ToEntry
C9_EntrySymmetry ==
    \A t \in Calls :
        Succeeded(t) =>
            /\ Cardinality(EntryRowsOf(t)) = 2
            /\ EntryRowsOf(t) = {result[t].FromEntry, result[t].ToEntry}
            /\ result[t].FromEntry.AccountID = arg[t].FromAccountID
            /\ result[t].FromEntry.Amount = -arg[t].Amount
            /\ result[t].ToEntry.AccountID = arg[t].ToAccountID
            /\ result[t].ToEntry.Amount = arg[t].Amount

\* a transfer has succeeded and its two entries are committed
C9_Witness ==
    \E t \in Calls :
        /\ Succeeded(t)
        /\ result[t].FromEntry \in entries
        /\ result[t].ToEntry \in entries
        /\ result[t].FromEntry.Amount < 0

\* C10: after n concurrent transfers of amount A from X to Y have all
\* succeeded, the committed state holds exactly n transfer rows and 2n entries,
\* n of -A on X and n of +A on Y, and X has lost and Y gained n*A
C10_NoDoubleApply ==
    LET X == arg[1].FromAccountID
        Y == arg[1].ToAccountID
        A == arg[1].Amount
        n == Cardinality(Calls)
    IN AllSucceeded =>
        /\ Cardinality(transfers) = n
        /\ Cardinality(entries) = 2 * n
        /\ Cardinality({e \in entries : e.AccountID = X /\ e.Amount = -A}) = n
        /\ Cardinality({e \in entries : e.AccountID = Y /\ e.Amount = A}) = n
        /\ \A r \in transfers : r.FromAccountID = X /\ r.ToAccountID = Y /\ r.Amount = A
        /\ balance[X] = InitBalance(X) - A * n
        /\ balance[Y] = InitBalance(Y) + A * n

\* the scenario: accounts of 100 and 50, every call Transfer(1 -> 2, 10), all
\* succeeded (with two calls: 80 and 70, 2 transfer rows, 4 entries)
C10_Witness ==
    /\ AllSucceeded
    /\ \A t \in Calls : arg[t] = [FromAccountID |-> 1, ToAccountID |-> 2, Amount |-> 10]
    /\ balance[1] = 100 - 10 * Cardinality(Calls)
    /\ balance[2] = 50 + 10 * Cardinality(Calls)
    /\ Cardinality(transfers) = Cardinality(Calls)
    /\ Cardinality(entries) = 2 * Cardinality(Calls)

\* the handler of request t has responded
Responded(t) == hpc[t] = "done"

\* C11: a createTransfer request (A -> B, 10) that names a source account A
\* with no row is answered with the not-found error of the account lookup
\* (or, when the lookup itself failed in the store, with that failure), and
\* nothing is written for it: TransferTx is not invoked, there is no transfer
\* row, no entry and no balance change of the request
C11_MissingSourceNotFound ==
    \A t \in Calls :
        (BindingOK(req[t]) /\ req[t].FromAccountID \notin Accounts) =>
            /\ pc[t] = "idle"
            /\ tx[t] = NoWrites(Accounts)
            /\ TransferRowsOf(t) = {}
            /\ EntryRowsOf(t) = {}
            /\ \A a \in Accounts : balance[a] = BalanceAfter(Present \ {t}, a)
            /\ \A i \in 1..Len(issued[t]) : issued[t][i].op = "GetAccount"
            /\ Responded(t) =>
                 \/ response[t] = [status |-> 404, error |-> <<"account not found">>]
                 \/ response[t] = [status |-> 500, error |-> <<"error fetching account">>]

\* a request (A -> B, 10) with A missing and B present was answered 404 while
\* a concurrent request has transferred
C11_Witness ==
    \E t \in Calls : \E u \in Calls \ {t} :
        /\ req[t].FromAccountID \notin Accounts
        /\ req[t].ToAccountID \in Accounts
        /\ req[t].Amount = 10
        /\ Responded(t)
        /\ response[t].status = 404
        /\ issued[t] = <<[op |-> "GetAccount", id |-> req[t].FromAccountID, amount |-> 0]>>
        /\ Succeeded(u)
        /\ transfers # {}

IsEnd(o) == o.op \in {"Commit", "Rollback"}

\* the Commit and Rollback calls execTx has made for call t, in order
Ends(t) == SelectSeq(issued[t], IsEnd)

\* call t is inside the work function of execTx
InWork(t) == pc[t] \in {"CreateTransfer", "CreateEntry1", "CreateEntry2",
                        "AddBalance1", "AddBalance2"}

\* the state part of C12: at most one Commit or Rollback per call, none
\* before the work function returned or when begin failed, exactly one once
\* the call is over; execTx is about to commit only with a nil error of the
\* work function and about to roll back only with an error
C12_Ends ==
    \A t \in Calls :
        /\ Len(Ends(t)) <= 1
        /\ (txState[t] = "none" \/ InWork(t) \/ pc[t] \in {"Commit", "Rollback"})
              => Ends(t) = <<>>
        /\ pc[t] = "Commit" => err[t] = NilErr
        /\ pc[t] = "Rollback" => err[t] # NilErr
        /\ (Done(t) /\ txState[t] # "none") => Len(Ends(t)) = 1
        /\ txState[t] = "committed" => (Ends(t) # <<>> /\ Ends(t)[1].op = "Commit")

\* the step part of C12: when the work function returns, execTx goes to
\* Commit if it returned nil and to Rollback if it returned an error, calls
\* that one, and returns
C12_Step ==
    \A t \in Calls :
        /\ (InWork(t) /\ ~InWork(t)') =>
              pc'[t] = IF err'[t] = NilErr THEN "Commit" ELSE "Rollback"
        /\ (pc[t] \in {"Commit", "Rollback"} /\ pc'[t] # pc[t]) =>
              /\ pc'[t] = "done"
              /\ Len(Ends(t)') = 1
              /\ Ends(t)'[1].op = pc[t]
        /\ Done(t) => Done(t)'

\* C12: for every transaction that was begun, execTx invokes exactly one of
\* Commit and Rollback: Commit if and only if the work function returned nil,
\* Rollback if and only if it returned an error
C12_CommitOrRollback == []C12_Ends /\ [][C12_Step]_vars

\* one call was committed and another, whose work function failed after it
\* had written, was rolled back
C12_Witness ==
    \E t \in Calls : \E u \in Calls \ {t} :
        /\ Done(t) /\ Ends(t) = <<[op |-> "Commit", id |-> 0, amount |-> 0]>>
        /\ txState[t] = "committed"
        /\ Done(u) /\ Ends(u) = <<[op |-> "Rollback", id |-> 0, amount |-> 0]>>
        /\ tx[u].entries # {}

\* the errors a store operation of the work function can return
StoreErrors(op) ==
    IF op = "CreateTransfer"
    THEN {<<"CreateTransfer">>, <<"foreign key violation">>, Canceled, ErrTxDone}
    ELSE IF op = "CreateEntry"
    THEN {<<"CreateEntry">>, <<"foreign key violation">>, Canceled, ErrTxDone}
    ELSE IF op = "AddAccountBalance"
    THEN {<<"AddAccountBalance">>, <<"deadlock detected">>, ErrNoRows, Canceled, ErrTxDone}
    ELSE {}

\* the last store operation call t issued inside the work function
LastWorkOp(t) ==
    IF Ends(t) = <<>> THEN issued[t][Len(issued[t])] ELSE issued[t][Len(issued[t]) - 1]

\* execTx of call t has rolled back and Rollback returned nil
RolledBackCleanly(t) ==
    /\ Done(t)
    /\ Ends(t) # <<>>
    /\ Ends(t)[1].op = "Rollback"
    /\ local[t].rbErr = NilErr

\* the state part of C13: the error with which the work function returned is
\* an error of the store operation it issued last, and it is what the call
\* returns after a Rollback that succeeded
C13_Returned ==
    \A t \in Calls :
        /\ pc[t] = "Rollback" => err[t] \in StoreErrors(LastWorkOp(t).op)
        /\ RolledBackCleanly(t) => err[t] \in StoreErrors(LastWorkOp(t).op)

\* the step part of C13: a Rollback that succeeds leaves err as it is
C13_Step ==
    \A t \in Calls :
        (pc[t] = "Rollback" /\ pc'[t] = "done" /\ local'[t].rbErr = NilErr) => err'[t] = err[t]

\* C13: when the work function fails and Rollback succeeds, execTx (and so
\* TransferTx) returns the error of the failing store operation itself,
\* unwrapped and unchanged
C13_OriginalError == []C13_Returned /\ [][C13_Step]_vars

\* a call whose second balance update failed was rolled back without a
\* rollback error and returned the error of that update
C13_Witness ==
    \E t \in Calls :
        /\ RolledBackCleanly(t)
        /\ Len(AddBalanceOps(t)) = 2
        /\ err[t] = <<"AddAccountBalance">>

\* execTx of call t has called Rollback and Rollback returned an error
RollbackFailed(t) ==
    /\ Done(t)
    /\ Ends(t) # <<>>
    /\ Ends(t)[1].op = "Rollback"
    /\ local[t].rbErr # NilErr

\* the state part of C14: after a failed Rollback the returned error holds
\* the error of the failing store operation followed by the rollback error
C14_Returned ==
    \A t \in Calls :
        RollbackFailed(t) =>
            /\ Len(err[t]) = 2
            /\ <<err[t][1]>> \in StoreErrors(LastWorkOp(t).op)
            /\ <<err[t][2]>> = local[t].rbErr

\* the step part of C14: a Rollback that fails adds its error to err
C14_Step ==
    \A t \in Calls :
        (pc[t] = "Rollback" /\ pc'[t] = "done" /\ local'[t].rbErr # NilErr) =>
            err'[t] = err[t] \o local'[t].rbErr

\* C14: when the work function fails and Rollback fails too, the error execTx
\* returns reports both the original error and the rollback error
C14_BothErrors == []C14_Returned /\ [][C14_Step]_vars

\* an entry insert failed, then the Rollback failed, and the call returned both
C14_Witness ==
    \E t \in Calls :
        /\ RollbackFailed(t)
        /\ err[t] = <<"CreateEntry", "Rollback">>

\* C15: once the caller has cancelled the context of an in-flight TransferTx
\* (before its commit completed), the transfer is never committed, neither as a
\* whole nor in part: no row and no balance delta of it is in the committed
\* state; and when the call has returned it has returned an error, its
\* transaction is rolled back and it holds no row lock
C15_CancelRollsBack ==
    \A t \in Calls :
        cancelled[t] =>
            /\ txState[t] # "committed"
            /\ TransferRowsOf(t) = {}
            /\ EntryRowsOf(t) = {}
            /\ \A a \in Accounts : balance[a] = BalanceAfter(Present \ {t}, a)
            /\ Done(t) =>
                 /\ err[t] # NilErr
                 /\ txState[t] \in {"none", "aborted"}
                 /\ \A a \in Accounts : lockOwner[a] # t

\* a call was cancelled after all five store operations had succeeded and
\* before Commit; it returned the context's error while another call committed
C15_Witness ==
    \E t \in Calls : \E u \in Calls \ {t} :
        /\ cancelled[t]
        /\ Done(t)
        /\ Len(AddBalanceOps(t)) = 2
        /\ Ends(t) = <<[op |-> "Commit", id |-> 0, amount |-> 0]>>
        /\ err[t] = Canceled
        /\ Succeeded(u)

\* the committed entries of account a, and the algebraic sum of their amounts
EntriesOf(a) == {e \in entries : e.AccountID = a}
EntrySum(a)  == SumOver(EntriesOf(a), [e \in EntriesOf(a) |-> e.Amount])

\* C16 as stated: in every committed state the balance of every account is
\* the algebraic sum of the amounts of its entries
C16_BalanceIsEntrySum ==
    \A a \in Accounts : balance[a] = EntrySum(a)

\* C16 amended: in every committed state the balance of every account is the
\* balance it was opened with plus the algebraic sum of the amounts of its
\* entries
C16_BalanceIsOpeningPlusEntries ==
    \A a \in Accounts : balance[a] = InitBalance(a) + EntrySum(a)

\* an account has a committed debit and a committed credit of different
\* amounts or counts, so that its balance has moved
C16_Witness ==
    \E a \in Accounts :
        /\ Cardinality(EntriesOf(a)) >= 2
        /\ balance[a] # InitBalance(a)
        /\ \E b \in Accounts \ {a} : Cardinality(EntriesOf(b)) >= 2

\* C17: every transfer row in the committed state has amount > 0 (and so has
\* every transfer row a transaction in flight has inserted)
C17_PositiveAmount ==
    /\ \A r \in transfers : r.Amount > 0
    /\ \A t \in Calls : \A r \in tx[t].transfers : r.Amount > 0

\* a transfer row is committed, and a request for the same accounts with an
\* amount that is not positive was turned down at binding
C17_Witness ==
    \E r \in transfers : \E t \in Calls :
        /\ r.Amount > 0
        /\ req[t].Amount <= 0
        /\ req[t].FromAccountID \in Accounts
        /\ req[t].ToAccountID \in Accounts
        /\ Responded(t)
        /\ response[t] = [status |-> 400, error |-> <<"binding">>]

\* C18: in every committed state there are exactly twice as many entries as
\* transfer rows, and the amounts of all entries add up to zero
C18_ZeroSumLedger ==
    /\ Cardinality(entries) = 2 * Cardinality(transfers)
    /\ SumOver(entries, [e \in entries |-> e.Amount]) = 0

\* one transfer is committed with its two entries, and a call that had
\* inserted its transfer row and one entry only was rolled back
C18_Witness ==
    /\ Cardinality(transfers) = 1
    /\ Cardinality(entries) = 2
    /\ \E u \in Calls :
         /\ Failed(u)
         /\ Cardinality(tx[u].transfers) = 1
         /\ Cardinality(tx[u].entries) = 1

\* the calls whose transaction is committed
Committed == {t \in Calls : txState[t] = "committed"}

\* the orders in which the calls of S can be run one after another
Orders(S) == {o \in [1..Cardinality(S) -> S] : \A i, j \in DOMAIN o : o[i] = o[j] => i = j}

\* a transfer p executed alone on the balances bal: the amount is taken off
\* the source and then added to the destination
TransferAlone(bal, p) ==
    LET debited == [bal EXCEPT ![p.FromAccountID] = @ - p.Amount]
    IN [debited EXCEPT ![p.ToAccountID] = @ + p.Amount]

RECURSIVE RunInOrder(_, _)
\* the balances after the transfers of the calls in o ran one after another
RunInOrder(o, bal) ==
    IF o = <<>> THEN bal
    ELSE RunInOrder(Tail(o), TransferAlone(bal, arg[Head(o)]))

\* C19: whatever the interleaving of the concurrent calls, the committed
\* balance of every account is the one obtained by running the committed
\* transfers one after another from the opening balances, in any order
C19_InterleavingIndependence ==
    \A o \in Orders(Committed) :
        balance = RunInOrder(o, [a \in Accounts |-> InitBalance(a)])

\* two calls touching the same accounts both committed, the second one having
\* updated a row after the first one's commit
C19_Witness ==
    \E t \in Committed : \E u \in Committed \ {t} :
        /\ AllDone
        /\ {arg[t].FromAccountID, arg[t].ToAccountID}
             \cap {arg[u].FromAccountID, arg[u].ToAccountID} # {}
        /\ arg[t].FromAccountID # arg[t].ToAccountID
        /\ \E a \in Accounts :
             /\ result[u].FromAccount.ID = a
             /\ result[u].FromAccount.Balance = balance[a]
             /\ balance[a] # InitBalance(a) + Delta(arg[u], a)

\* the accounts call t names
AccountsOf(t) == {arg[t].FromAccountID, arg[t].ToAccountID}

\* C20: two concurrent TransferTx calls that share no account never wait on
\* each other: neither ever holds the lock of a row the other names, and
\* neither's next step waits for a lock the other holds
C20_DisjointIndependent ==
    \A t \in Calls : \A u \in Calls \ {t} :
        AccountsOf(t) \cap AccountsOf(u) = {} =>
            /\ WaitsFor(t) # u
            /\ \A a \in AccountsOf(t) \cap Accounts : lockOwner[a] # u
            /\ err[t] # <<"deadlock detected">>

\* two calls without a common account are both between their two balance
\* updates, each holding a row lock, and neither waits
C20_Witness ==
    \E t \in Calls : \E u \in Calls \ {t} :
        /\ AccountsOf(t) \cap AccountsOf(u) = {}
        /\ pc[t] = "AddBalance2" /\ pc[u] = "AddBalance2"
        /\ \E a \in AccountsOf(t) : lockOwner[a] = t
        /\ \E a \in AccountsOf(u) : lockOwner[a] = u
        /\ WaitsFor(t) = 0 /\ WaitsFor(u) = 0

\* how many operations named op call t has issued
OpCount(t, op) == Len(SelectSeq(issued[t], LAMBDA o : o.op = op))

\* C21: a TransferTx call begins at most one transaction and issues
\* CreateTransfer at most once, CreateEntry at most twice and
\* AddAccountBalance at most twice; once a step has failed the call is rolling
\* back or has returned, with the error, and is never again inside the work
\* function
C21_NoRetry ==
    \A t \in Calls :
        /\ OpCount(t, "BeginTx") <= 1
        /\ OpCount(t, "CreateTransfer") <= 1
        /\ OpCount(t, "CreateEntry") <= 2
        /\ OpCount(t, "AddAccountBalance") <= 2
        /\ err[t] # NilErr => pc[t] \in {"Rollback", "done"}
        /\ (Done(t) /\ Ends(t) # <<>> /\ Ends(t)[1].op = "Rollback") => err[t] # NilErr

\* a call whose second entry insert failed has returned the error after one
\* BeginTx, one CreateTransfer, two CreateEntry and no balance update
C21_Witness ==
    \E t \in Calls :
        /\ Failed(t)
        /\ err[t] = <<"CreateEntry">>
        /\ OpCount(t, "BeginTx") = 1
        /\ OpCount(t, "CreateTransfer") = 1
        /\ OpCount(t, "CreateEntry") = 2
        /\ OpCount(t, "AddAccountBalance") = 0
        /\ OpCount(t, "Rollback") = 1

\* C22: with every call scheduled and the store answering, every TransferTx
\* of a set of concurrent transfers eventually returns, and a transfer that
\* waits for the row lock of an account eventually holds that lock
C22_EventualCompletion ==
    /\ \A t \in 1..NumCalls : <>Done(t)
    /\ \A t \in 1..NumCalls : \A a \in 1..NumAccounts :
         (WaitsFor(t) # 0 /\ NextLockOf(t) = a) ~> (lockOwner[a] = t)

\* a call waits for the row lock of account 1, held by a call that goes the
\* other way
C22_Witness ==
    \E t \in Calls :
        /\ WaitsFor(t) # 0
        /\ NextLockOf(t) = 1
        /\ arg[WaitsFor(t)].FromAccountID = arg[t].ToAccountID
        /\ arg[WaitsFor(t)].ToAccountID = arg[t].FromAccountID

\* the k of a result: how many transfers of amount A the snapshot of account
\* X in result.FromAccount reflects
SnapshotK(t) == (InitBalance(arg[t].FromAccountID) - result[t].FromAccount.Balance) \div arg[t].Amount

\* C23: of n concurrent transfers of amount A from X to Y with X < Y, every
\* result returned with a nil error shows X down by k*A and Y up by the same
\* k*A for some k in 1..n, and no two such results have the same k
C23_SnapshotConsistency ==
    LET X == arg[1].FromAccountID
        Y == arg[1].ToAccountID
        A == arg[1].Amount
        n == Cardinality(Calls)
    IN X < Y =>
         /\ \A t \in Calls : Succeeded(t) =>
              \E k \in 1..n :
                  /\ InitBalance(X) - result[t].FromAccount.Balance = k * A
                  /\ result[t].ToAccount.Balance - InitBalance(Y) = k * A
         /\ \A t \in Calls : \A u \in Calls \ {t} :
              (Succeeded(t) /\ Succeeded(u)) => SnapshotK(t) # SnapshotK(u)

\* all calls from the smaller id to the larger returned nil, one with k = 1
\* and another with k = n
C23_Witness ==
    /\ arg[1].FromAccountID < arg[1].ToAccountID
    /\ \A t \in Calls : arg[t] = arg[1]
    /\ AllSucceeded
    /\ \E t \in Calls : \E u \in Calls \ {t} :
         /\ SnapshotK(t) = 1
         /\ SnapshotK(u) = Cardinality(Calls)
         /\ result[u].ToAccount.Balance
              = InitBalance(arg[1].ToAccountID) + Cardinality(Calls) * arg[1].Amount

IsWorkOp(o) == o.op \in {"CreateTransfer", "CreateEntry", "AddAccountBalance"}

\* the store operations the work function of call t has issued, in order
WorkOps(t) == SelectSeq(issued[t], IsWorkOp)

\* the i-th operation of the work function on parameters p is as section 4.3
\* orders it
InStepOrder(p, i, o) ==
    IF i = 1 THEN o = [op |-> "CreateTransfer", id |-> 0, amount |-> p.Amount]
    ELSE IF i = 2 THEN o = [op |-> "CreateEntry", id |-> p.FromAccountID, amount |-> -p.Amount]
    ELSE IF i = 3 THEN o = [op |-> "CreateEntry", id |-> p.ToAccountID, amount |-> p.Amount]
    ELSE i \in {4, 5} /\ o.op = "AddAccountBalance"

\* the state part of C24: what a call has issued is BeginTx, then a prefix of
\* the five steps in order, then at most one Commit or Rollback; all five
\* steps were issued before a Commit
C24_Order ==
    \A t \in Calls :
        /\ \A i \in 1..Len(WorkOps(t)) : InStepOrder(arg[t], i, WorkOps(t)[i])
        /\ \A i \in 1..Len(issued[t]) :
             /\ issued[t][i].op = "BeginTx" <=> i = 1
             /\ IsEnd(issued[t][i]) => i = Len(issued[t])
        /\ (pc[t] = "Commit" \/ Succeeded(t)) => Len(WorkOps(t)) = 5

\* the step part of C24: a call whose error is set issues no further step
C24_Step ==
    \A t \in Calls : err[t] # NilErr => WorkOps(t)' = WorkOps(t)

\* C24: inside one transaction TransferTx issues CreateTransfer,
\* CreateEntry(from, -amount), CreateEntry(to, +amount) and the two
\* AddAccountBalance calls in this order, and once a step has failed it issues
\* no later step
C24_StepOrder == []C24_Order /\ [][C24_Step]_vars

\* one call returned after its first CreateEntry failed, having issued two
\* steps, and another issued all five and committed
C24_Witness ==
    \E t \in Calls : \E u \in Calls \ {t} :
        /\ Failed(t) /\ err[t] = <<"CreateEntry">> /\ Len(WorkOps(t)) = 2
        /\ Succeeded(u) /\ Len(WorkOps(u)) = 5

\* call t is at an insert of the transfer row or of an entry
AtInsert(t) == pc[t] \in {"CreateTransfer", "CreateEntry1", "CreateEntry2"}

\* call t is at an AddAccountBalance
AtAddBalance(t) == pc[t] \in {"AddBalance1", "AddBalance2"}

\* C25: an insert of the transfer row or of an entry never waits for a row
\* lock held by another transfer and takes no lock another transfer waits
\* for; a TransferTx that cannot go on until another one has ended is at an
\* AddAccountBalance on an account both of them name
C25_OnlyAddBalanceBlocks ==
    \A t \in Calls :
        /\ AtInsert(t) => ENABLED StepAnswered(t)
        /\ (pc[t] \notin {"idle", "done"} /\ ~ENABLED StepAnswered(t)) =>
              /\ AtAddBalance(t)
              /\ WaitsFor(t) \in Calls \ {t}
              /\ NextLockOf(t) \in AccountsOf(t) \cap AccountsOf(WaitsFor(t))
        /\ \A a \in Accounts : lockOwner[a] = t =>
              \E i \in 1..Len(issued[t]) :
                  issued[t][i].op = "AddAccountBalance" /\ issued[t][i].id = a

\* one call is about to insert the entry of an account whose row lock another
\* call, about to commit, holds
C25_Witness ==
    \E t \in Calls : \E u \in Calls \ {t} :
        /\ pc[t] = "CreateEntry1"
        /\ lockOwner[arg[t].FromAccountID] = u
        /\ pc[u] = "Commit"

\* the committed rows of R are kept by a step to R2: each is still there, and
\* it is the only row of its id
RowsKept(R, R2) == \A r \in R : r \in R2 /\ \A r2 \in R2 : r2.ID = r.ID => r2 = r

\* the step part of C26: no step removes a committed transfer or entry row or
\* changes one of its fields
C26_Step == RowsKept(transfers, transfers') /\ RowsKept(entries, entries')

\* the state part of C26: the rows a call that returned nil wrote are in the
\* committed tables as it wrote them
C26_Kept ==
    \A t \in Calls : Succeeded(t) =>
        /\ result[t].Transfer \in transfers
        /\ {result[t].FromEntry, result[t].ToEntry} \subseteq entries

GetByID(R, id) == {r \in R : r.ID = id}

\* C27: the Transfer of a result returned with a nil error carries the
\* request's FromAccountID, ToAccountID and Amount and a non-zero id, and a
\* Get by id on the committed store returns the result's transfer and its
\* two entries
C27_TransferEchoesRequest ==
    \A t \in Calls : Succeeded(t) =>
        /\ result[t].Transfer.FromAccountID = arg[t].FromAccountID
        /\ result[t].Transfer.ToAccountID = arg[t].ToAccountID
        /\ result[t].Transfer.Amount = arg[t].Amount
        /\ result[t].Transfer.ID # 0
        /\ GetByID(transfers, result[t].Transfer.ID) = {result[t].Transfer}
        /\ result[t].FromEntry.ID # 0 /\ result[t].ToEntry.ID # 0
        /\ GetByID(entries, result[t].FromEntry.ID) = {result[t].FromEntry}
        /\ GetByID(entries, result[t].ToEntry.ID) = {result[t].ToEntry}

\* two calls with different requests returned nil, and the store holds the
\* transfer row of each
C27_Witness ==
    \E t \in Calls : \E u \in Calls \ {t} :
        /\ Succeeded(t) /\ Succeeded(u)
        /\ arg[t] # arg[u]
        /\ result[t].Transfer.ID # result[u].Transfer.ID
        /\ {result[t].Transfer, result[u].Transfer} \subseteq transfers

\* C28: every store operation of a TransferTx runs on the transaction execTx
\* began for the call: the rows it inserted and the balance changes it made
\* are writes of that transaction, and the committed store shows none of them
\* unless that transaction has committed
C28_SingleTransactionHandle ==
    /\ \A a \in Accounts : balance[a] = BalanceAfter(Committed, a)
    /\ \A t \in Calls :
        /\ txState[t] # "committed" => TransferRowsOf(t) = {} /\ EntryRowsOf(t) = {}
        /\ result[t].Transfer # ZeroTransfer => result[t].Transfer \in tx[t].transfers
        /\ result[t].FromEntry # ZeroEntry => result[t].FromEntry \in tx[t].entries
        /\ result[t].ToEntry # ZeroEntry => result[t].ToEntry \in tx[t].entries
        /\ pc[t] = "Commit" =>
             \A a \in Accounts : tx[t].delta[a] = Delta(arg[t], a)

\* a call has carried out its five operations and is about to commit: its
\* rows and balance changes are in its transaction and not in the committed
\* store, where another call's are
C28_Witness ==
    \E t \in Calls : \E u \in Calls \ {t} :
        /\ pc[t] = "Commit"
        /\ Cardinality(tx[t].transfers) = 1 /\ Cardinality(tx[t].entries) = 2
        /\ \E a \in Accounts : tx[t].delta[a] # 0
        /\ TransferRowsOf(t) = {} /\ EntryRowsOf(t) = {}
        /\ Succeeded(u) /\ TransferRowsOf(u) # {}

\* the handler of request t has invoked TransferTx
Invoked(t) == pc[t] # "idle"

\* account id has a row whose currency is the currency c of the request, up
\* to the case of the letters
FoundInCurrency(id, c) == id \in Accounts /\ Fold(AccountCurrency(id)) = Fold(c)

\* C29: createTransfer invokes TransferTx only after it has looked up the
\* source account and then the destination account and found each with the
\* currency of the request (compared without regard to case), and passes it
\* the ids and amount of the request; a request it has not invoked TransferTx
\* for has written no row and changed no balance
C29_ApiGating ==
    /\ \A a \in Accounts : balance[a] = BalanceAfter(Committed, a)
    /\ \A t \in Calls :
        /\ Invoked(t) =>
             /\ Len(issued[t]) >= 2
             /\ issued[t][1] = [op |-> "GetAccount", id |-> req[t].FromAccountID, amount |-> 0]
             /\ issued[t][2] = [op |-> "GetAccount", id |-> req[t].ToAccountID, amount |-> 0]
             /\ pc[t] # "BeginTx" => issued[t][3].op = "BeginTx"
             /\ FoundInCurrency(req[t].FromAccountID, req[t].Currency)
             /\ FoundInCurrency(req[t].ToAccountID, req[t].Currency)
             /\ arg[t] = [FromAccountID |-> req[t].FromAccountID,
                          ToAccountID |-> req[t].ToAccountID, Amount |-> req[t].Amount]
        /\ ~Invoked(t) =>
             /\ tx[t] = NoWrites(Accounts)
             /\ TransferRowsOf(t) = {} /\ EntryRowsOf(t) = {}
             /\ t \notin Committed
             /\ \A i \in 1..Len(issued[t]) : issued[t][i].op = "GetAccount"
        /\ (Responded(t) /\ ~(/\ FoundInCurrency(req[t].FromAccountID, req[t].Currency)
                               /\ FoundInCurrency(req[t].ToAccountID, req[t].Currency)))
              => ~Invoked(t) /\ response[t].status \in {400, 404, 500}

\* a request whose source account has the request's currency and whose
\* destination account has another was answered 400 after both lookups, with
\* nothing written, and another request has transferred
C29_Witness ==
    \E t \in Calls : \E u \in Calls \ {t} :
        /\ FoundInCurrency(req[t].FromAccountID, req[t].Currency)
        /\ req[t].ToAccountID \in Accounts
        /\ ~FoundInCurrency(req[t].ToAccountID, req[t].Currency)
        /\ Responded(t) /\ response[t].status = 400
        /\ Len(issued[t]) = 2
        /\ ~Invoked(t)
        /\ Succeeded(u) /\ TransferRowsOf(u) # {}

\* call t is a transfer from an existing account to itself
SelfTransfer(t) == arg[t].FromAccountID = arg[t].ToAccountID /\ arg[t].FromAccountID \in Accounts

\* C30: a TransferTx from an account to itself is not rejected: it fails only
\* when the store fails under it, it applies +amount and then -amount to the
\* account, and once it has returned nil the store holds its one transfer
\* row and its two entries, -amount and +amount, both of that account, whose
\* committed balance is what the other committed transfers make it
C30_SelfTransfer ==
    \A t \in Calls : SelfTransfer(t) =>
        LET x == arg[t].FromAccountID
            A == arg[t].Amount
        IN /\ Failed(t) => err[t][1] \in StoreFaults \cup {"Rollback"}
           /\ \A i \in 1..Len(AddBalanceOps(t)) :
                AddBalanceOps(t)[i] = [op |-> "AddAccountBalance", id |-> x,
                                       amount |-> IF i = 1 THEN A ELSE -A]
           /\ Succeeded(t) =>
                /\ Len(AddBalanceOps(t)) = 2
                /\ TransferRowsOf(t) = {[ID |-> NewTransferID(t), FromAccountID |-> x,
                                         ToAccountID |-> x, Amount |-> A]}
                /\ EntryRowsOf(t) = {[ID |-> NewEntryID(t, 1), AccountID |-> x, Amount |-> -A],
                                     [ID |-> NewEntryID(t, 2), AccountID |-> x, Amount |-> A]}
                /\ tx[t].delta[x] = 0
                /\ balance[x] = BalanceAfter(Committed \ {t}, x)

\* a transfer from account 1 to itself has returned nil, no other call has
\* committed, and the balance of account 1 is the opening balance
C30_Witness ==
    \E t \in Calls :
        /\ arg[t].FromAccountID = 1 /\ arg[t].ToAccountID = 1
        /\ Succeeded(t)
        /\ Committed = {t}
        /\ Cardinality(transfers) = 1 /\ Cardinality(entries) = 2
        /\ balance[1] = InitBalance(1)
        /\ result[t].FromAccount.Balance = InitBalance(1) + arg[t].Amount
        /\ result[t].ToAccount.Balance = InitBalance(1)

\* the sum of the committed balances of all accounts
TotalBalance == SumOver(Accounts, balance)

\* the sum of the opening balances of all accounts
OpeningTotal == SumOver(Accounts, [a \in Accounts |-> InitBalance(a)])

\* C31: in every committed state, whatever calls have committed, failed, been
\* cancelled or are in flight, the balances of all accounts add up to what
\* they added up to at the start
C31_GlobalConservation == TotalBalance = OpeningTotal

\* one call has committed and moved money, another was cancelled and returned
\* the context's error, and the total is the opening total
C31_Witness ==
    \E t \in Calls : \E u \in Calls \ {t} :
        /\ Succeeded(t)
        /\ balance[arg[t].FromAccountID] = InitBalance(arg[t].FromAccountID) - arg[t].Amount
        /\ balance[arg[t].ToAccountID] = InitBalance(arg[t].ToAccountID) + arg[t].Amount
        /\ cancelled[u] /\ Failed(u)
        /\ Len(AddBalanceOps(u)) >= 1
        /\ TotalBalance = OpeningTotal

\* the sum of the amounts of the entries for account a that the transaction
\* of call t has inserted
TxEntrySum(t, a) ==
    LET E == {e \in tx[t].entries : e.AccountID = a}
    IN SumOver(E, [e \in E |-> e.Amount])

\* C32: in every committed state reached by TransferTx calls from the opening
\* accounts, the balance of each account less its opening balance is the sum
\* of the amounts of the committed entries of that account; a transaction
\* about to commit changes each balance by the sum of the entries it inserted
\* for that account
C32_LedgerBalanceAgreement ==
    /\ \A a \in Accounts : balance[a] - InitBalance(a) = EntrySum(a)
    /\ \A t \in Calls : pc[t] = "Commit" =>
         \A a \in Accounts : tx[t].delta[a] = TxEntrySum(t, a)

\* transfers of different amounts went both ways and committed: each of the
\* two accounts has a debit and a credit entry and a balance that moved by
\* their sum, which is not zero
C32_Witness ==
    /\ AllSucceeded
    /\ \A a \in Accounts :
         /\ \E e \in EntriesOf(a) : e.Amount < 0
         /\ \E e \in EntriesOf(a) : e.Amount > 0
         /\ EntrySum(a) # 0
         /\ balance[a] = InitBalance(a) + EntrySum(a)

\* the AddAccountBalance call t is at is carried out
AddBalanceApplied(t) ==
    /\ AddBalance1(t) \/ AddBalance2(t)
    /\ err'[t] = NilErr

\* the next AddAccountBalance of call t would leave the balance it updates
\* below zero
Overdraws(t) ==
    LET a == AddMoneyArgs(arg[t])[IF pc[t] = "AddBalance1" THEN 1 ELSE 2]
    IN a.ID \in Accounts /\ Visible(t, a.ID) + a.Amount < 0

\* C33: TransferTx never turns a transfer down for lack of funds: a call
\* fails only when the store fails under it, a balance update that does not
\* have to wait can be carried out also when it leaves the balance below
\* zero, and the committed balances are those of all committed transfers,
\* negative or not
C33_NoFundsCheck ==
    /\ \A a \in Accounts : balance[a] = BalanceAfter(Committed, a)
    /\ \A t \in Calls :
        /\ Failed(t) => err[t][1] \in StoreFaults
        /\ (AtAddBalance(t) /\ WaitsFor(t) = 0 /\ Overdraws(t)) => ENABLED AddBalanceApplied(t)

\* a transfer of more than its source account held has committed and the
\* committed balance of that account is negative
C33_Witness ==
    \E t \in Calls :
        /\ Succeeded(t)
        /\ InitBalance(arg[t].FromAccountID) < arg[t].Amount
        /\ balance[arg[t].FromAccountID] = InitBalance(arg[t].FromAccountID) - arg[t].Amount
        /\ balance[arg[t].FromAccountID] < 0

\* the state part of C34: an account no committed transfer names has its
\* opening balance, and no transaction has written to, or locked, the row of
\* an account its call does not name
C34_Untouched ==
    /\ \A a \in Accounts :
         (\A t \in Committed : a \notin AccountsOf(t)) => balance[a] = InitBalance(a)
    /\ \A t \in Calls : \A a \in Accounts \ AccountsOf(t) :
         tx[t].delta[a] = 0 /\ lockOwner[a] # t

\* the step part of C34: no step creates or deletes an account, and a
\* committed balance changes only in the commit of a call that names the
\* account
C34_Step ==
    /\ DOMAIN balance' = DOMAIN balance
    /\ \A a \in Accounts :
         balance'[a] # balance[a] => \E t \in Calls : Commits(t) /\ a \in AccountsOf(t)

StepsDone(t) ==
    IF Ends(t) # <<>> /\ Ends(t)[1].op = "Commit" THEN 5
    ELSE IF pc[t] \in {"Rollback", "done"} /\ WorkOps(t) # <<>> THEN Len(WorkOps(t)) - 1
    ELSE Len(WorkOps(t))

\* C35: a TransferTx that returned an error after k - 1 of its steps had
\* succeeded returns a result that still holds what those steps produced (the
\* transfer with its id after the first, the entries after the second and
\* third, an account row after the fourth), while the committed store holds
\* no row of the call
C35_StaleResultOnError ==
    \A t \in Calls : Failed(t) =>
        /\ TransferRowsOf(t) = {} /\ EntryRowsOf(t) = {}
        /\ StepsDone(t) >= 1 =>
             /\ result[t].Transfer = TransferRow(t, arg[t])
             /\ result[t].Transfer.ID # 0
             /\ result[t] # ZeroResult
        /\ StepsDone(t) >= 2 => result[t].FromEntry = DebitRow(t, arg[t])
        /\ StepsDone(t) >= 3 => result[t].ToEntry = CreditRow(t, arg[t])
        /\ StepsDone(t) >= 4 =>
             \E r \in {result[t].FromAccount, result[t].ToAccount} :
                 r # ZeroAccount /\ r.ID \in AccountsOf(t)

\* a call returned the error of its second balance update: its result holds
\* the transfer, both entries and one account row, and the store holds no
\* transfer and no entry
C35_Witness ==
    \E t \in Calls :
        /\ Failed(t) /\ err[t] = <<"AddAccountBalance">>
        /\ StepsDone(t) = 4
        /\ result[t].Transfer.ID # 0
        /\ result[t].FromEntry.ID # 0 /\ result[t].ToEntry.ID # 0
        /\ transfers = {} /\ entries = {}

\* execTx of call t called Commit and Commit returned an error
CommitFailed(t) ==
    /\ Done(t)
    /\ txState[t] # "committed"
    /\ issued[t] # <<>>
    /\ issued[t][Len(issued[t])].op = "Commit"

\* C36: when the five store operations of a TransferTx have succeeded and
\* Commit returns an error, TransferTx returns that error together with the
\* result the five steps filled in, execTx calls no Rollback, and the handler
\* answers 500 with that error, never 200
C36_CommitFailure ==
    \A t \in Calls : CommitFailed(t) =>
        /\ Len(WorkOps(t)) = 5
        /\ err[t] \in {<<"Commit">>, Canceled, ErrTxDone}
        /\ Ends(t) = <<[op |-> "Commit", id |-> 0, amount |-> 0]>>
        /\ local[t].rbErr = NilErr
        /\ result[t].Transfer = TransferRow(t, arg[t])
        /\ result[t].FromEntry = DebitRow(t, arg[t])
        /\ result[t].ToEntry = CreditRow(t, arg[t])
        /\ result[t].FromAccount # ZeroAccount /\ result[t].ToAccount # ZeroAccount
        /\ Responded(t) => response[t] = [status |-> 500, error |-> err[t]]

\* the Commit of a request failed after its five operations: the handler has
\* answered 500 with the error of Commit, and the result it dropped is filled
C36_Witness ==
    \E t \in Calls :
        /\ CommitFailed(t)
        /\ err[t] = <<"Commit">>
        /\ Responded(t) /\ response[t].status = 500
        /\ result[t].Transfer.ID # 0
        /\ TransferRowsOf(t) = {}

\* BeginTx of call t has returned an error: the call has no transaction
BeginFailed(t) == issued[t] # <<>> /\ txState[t] = "none"

\* C37: when BeginTx fails, execTx returns its error at once: the work
\* function is not invoked, no Commit, Rollback or other store operation is
\* issued, nothing is written or locked, and TransferTx returns the zero
\* result with that error
C37_BeginFailure ==
    \A t \in Calls :
        /\ BeginFailed(t) =>
             /\ Done(t)
             /\ issued[t] = <<[op |-> "BeginTx", id |-> 0, amount |-> 0]>>
             /\ err[t] \in {<<"BeginTx">>, Canceled}
             /\ result[t] = ZeroResult
             /\ tx[t] = NoWrites(Accounts)
             /\ \A a \in Accounts : lockOwner[a] # t
             /\ TransferRowsOf(t) = {} /\ EntryRowsOf(t) = {}
        /\ (Done(t) /\ err[t] = <<"BeginTx">>) => BeginFailed(t)

\* BeginTx of one call failed and the call returned its error with the zero
\* result, while another call has committed
C37_Witness ==
    \E t \in Calls : \E u \in Calls \ {t} :
        /\ Done(t) /\ err[t] = <<"BeginTx">>
        /\ issued[t] = <<[op |-> "BeginTx", id |-> 0, amount |-> 0]>>
        /\ result[t] = ZeroResult
        /\ Succeeded(u) /\ TransferRowsOf(u) # {}

====
